---- MODULE Spec2Model ----
(***************************************************************************)
(* Proposal lifecycle and payment-staging engine of Propoflow              *)
(* (src/app.py, src/models.py).                                            *)
(*                                                                         *)
(* Text values (form fields, stored strings) are sequences of one-character*)
(* strings, so that parsing and formatting are computed character by       *)
(* character as the Python code does.  An absent value (Python None, SQL   *)
(* NULL) is None for text columns and NoTime for DateTime columns.         *)
(* Timestamps are minutes on the clock `now`.                              *)
(*                                                                         *)
(* Python floats are modelled by exact rationals.  round() is              *)
(* round-half-to-even.  The IEEE product total * (percent / 100.0) differs *)
(* from the exact product only when the exact product is a tie (x.5); the  *)
(* totals used below (StageTotals and the totals the forms produce) have   *)
(* been compared against CPython for every percent 0..100 and agree.       *)
(***************************************************************************)
EXTENDS Integers, Sequences, FiniteSets, TLC

VARIABLES
    now,        \* wall clock read by _now(), in minutes
    user,       \* the signed-in owner's row of table users
    services,   \* table services of the owner: sequence of rows, index = id
    clients,    \* table clients of the owner: sequence of rows, index = id
    proposals,  \* table proposals with its items, payment_stages and versions:
                \* function from proposal id to row
    cookies,    \* cookies[b][id]: value of cookie pv_<public_id> in browser b
    call        \* the request being served in the single-function specifications

vars == <<now, user, services, clients, proposals, cookies, call>>

-----------------------------------------------------------------------------
(* Bounds of the model *)

MaxEdits == 2           \* edit_proposal_save calls per proposal
MaxTime == 10           \* last minute of the clock
TickMinutes == 5        \* minutes between two readings of the clock
MaxPlanLen == 3         \* entries of a payment plan given to upsert_payment_stages
MaxServices == 1        \* services the owner saves

-----------------------------------------------------------------------------
(* Absent values *)

None == <<"None">>
NoTime == -1

-----------------------------------------------------------------------------
(* Characters and numbers *)

Digits == {"0", "1", "2", "3", "4", "5", "6", "7", "8", "9"}

DigitVal(c) ==
    CASE c = "0" -> 0 [] c = "1" -> 1 [] c = "2" -> 2 [] c = "3" -> 3
      [] c = "4" -> 4 [] c = "5" -> 5 [] c = "6" -> 6 [] c = "7" -> 7
      [] c = "8" -> 8 [] c = "9" -> 9

DigitChar(d) ==
    CASE d = 0 -> "0" [] d = 1 -> "1" [] d = 2 -> "2" [] d = 3 -> "3"
      [] d = 4 -> "4" [] d = 5 -> "5" [] d = 6 -> "6" [] d = 7 -> "7"
      [] d = 8 -> "8" [] d = 9 -> "9"

Max2(a, b) == IF a >= b THEN a ELSE b
Min2(a, b) == IF a <= b THEN a ELSE b

Pow10(k) ==
    LET pw[i \in 0..k] == IF i = 0 THEN 1 ELSE 10 * pw[i - 1]
    IN  pw[k]

\* Python round() of the non-negative rational n / d: nearest integer, ties to even
Round(n, d) ==
    LET q == n \div d
        r == n % d
    IN  IF 2 * r < d THEN q
        ELSE IF 2 * r > d THEN q + 1
        ELSE IF q % 2 = 0 THEN q ELSE q + 1

\* value of a sequence of digit characters; 0 for the empty sequence
DigitsToNat(s) ==
    LET val[i \in 0..Len(s)] == IF i = 0 THEN 0 ELSE 10 * val[i - 1] + DigitVal(s[i])
    IN  val[Len(s)]

\* how many decimal digits n has, at most 9
NumDigits(n) ==
    CHOOSE j \in 1..9 : (j = 1 \/ n >= Pow10(j - 1)) /\ (j = 9 \/ n < Pow10(j))

\* n written with k decimal digits
DigitsOfWidth(n, k) == [i \in 1..k |-> DigitChar((n \div Pow10(k - i)) % 10)]

\* the decimal digits of n
NatToDigits(n) == DigitsOfWidth(n, NumDigits(n))

MinOf(S) == CHOOSE x \in S : \A y \in S : x <= y
MaxOf(S) == CHOOSE x \in S : \A y \in S : x >= y

Count(s, c) == Cardinality({i \in 1..Len(s) : s[i] = c})

Replace(s, a, b) == [i \in 1..Len(s) |-> IF s[i] = a THEN b ELSE s[i]]

Remove(s, a) == SelectSeq(s, LAMBDA c : c # a)

\* positions of s holding another character than c
Others(s, c) == {i \in 1..Len(s) : s[i] # c}

\* str.strip(): drop leading and trailing blanks
Strip(s) ==
    IF Others(s, " ") = {} THEN <<>>
    ELSE SubSeq(s, MinOf(Others(s, " ")), MaxOf(Others(s, " ")))

\* str.lstrip("0")
LStripZeros(s) ==
    IF Others(s, "0") = {} THEN <<>>
    ELSE SubSeq(s, MinOf(Others(s, "0")), Len(s))

\* float(text) for text made of digits, "." and an optional leading sign:
\* ok is FALSE where float() raises ValueError; the value is sign * num / 10^scale
FloatOk(body) ==
    /\ \A i \in 1..Len(body) : body[i] \in Digits \cup {"."}
    /\ Count(body, ".") <= 1
    /\ \E i \in 1..Len(body) : body[i] \in Digits

\* digits after the point of a well-formed body
FloatScale(body) ==
    IF Count(body, ".") = 1
    THEN Len(body) - (CHOOSE i \in 1..Len(body) : body[i] = ".")
    ELSE 0

FloatOf(neg, body) ==
    IF FloatOk(body)
    THEN [ok |-> TRUE, neg |-> neg,
          num |-> DigitsToNat(SelectSeq(body, LAMBDA c : c \in Digits)),
          scale |-> FloatScale(body)]
    ELSE [ok |-> FALSE, neg |-> neg, num |-> 0, scale |-> 0]

\* t without its sign
ParseSignedBody(t) == IF Len(t) > 0 /\ t[1] \in {"-", "+"} THEN Tail(t) ELSE t

ParseSigned(t) == FloatOf(Len(t) > 0 /\ t[1] = "-", ParseSignedBody(t))

ParseFloat(text) == ParseSigned(Strip(text))

\* str.lower() over the letters the requests use
LowerChar(c) ==
    CASE c = "A" -> "a" [] c = "B" -> "b" [] c = "F" -> "f" [] c = "I" -> "i"
      [] c = "N" -> "n" [] c = "T" -> "t" [] c = "Y" -> "y" [] OTHER -> c
Lower(s) == [i \in 1..Len(s) |-> LowerChar(s[i])]

-----------------------------------------------------------------------------
(* Money codec *)

MoneyChars == Digits \cup {",", "."}

\* lines 206-211: the text handed to float()
DecimalText(s) ==
    IF Count(s, ",") > 0 /\ Count(s, ".") > 0
    THEN Replace(Remove(s, "."), ",", ".")
    ELSE IF Count(s, ",") > 0
    THEN Replace(s, ",", ".")
    ELSE s

\* lines 213-217: int(round(n * 100)), 0 where float() raises
CentsOfFloat(n) == IF ~n.ok THEN 0 ELSE Round(n.num * 100, Pow10(n.scale))

\* lines 203-217, for the text s cleared of every other character
CentsOfMoneyText(s) ==
    IF Len(s) = 0 THEN 0 ELSE CentsOfFloat(ParseFloat(DecimalText(s)))

brl_to_cents(v) ==
    IF Len(v) = 0 THEN 0
    ELSE CentsOfMoneyText(SelectSeq(Strip(v), LAMBDA c : c \in MoneyChars))

\* format spec ",": groups of three digits from the right
Reverse(s) == [i \in 1..Len(s) |-> s[Len(s) + 1 - i]]

\* the digits ds with a "," before every group of three, written from the right:
\* position r counts digits and separators from 1
GroupedFromRight(ds) ==
    [r \in 1..(Len(ds) + (Len(ds) - 1) \div 3) |->
        IF r % 4 = 0 THEN "," ELSE ds[Len(ds) + 1 - (r - r \div 4)]]

GroupThousands(n) == Reverse(GroupedFromRight(NatToDigits(n)))

\* format spec ",.2f" of n / 100
FormatCents(n) ==
    GroupThousands(n \div 100) \o <<".", DigitChar((n % 100) \div 10), DigitChar(n % 10)>>

SwapSeparators(us) == Replace(Replace(Replace(us, ",", "X"), ".", ","), "X", ".")

\* variant: a negative amount is formatted as it is
cents_to_brl_unclamped(cents) == <<"R", "$", " ">> \o SwapSeparators(FormatCents(cents))

cents_to_brl(cents) == <<"R", "$", " ">> \o SwapSeparators(FormatCents(Max2(0, cents)))

-----------------------------------------------------------------------------
(* Phone numbers *)

normalize_phone_br(phone) ==
    LET digits == LStripZeros(SelectSeq(phone, LAMBDA c : c \in Digits))
        core == IF Len(digits) >= 2 /\ SubSeq(digits, 1, 2) = <<"5", "5">>
                THEN SubSeq(digits, 3, Len(digits))
                ELSE digits
    IN  IF Len(phone) = 0 THEN None
        ELSE IF Len(digits) = 0 THEN None
        ELSE IF Len(core) \notin {10, 11} THEN None
        ELSE <<"5", "5">> \o core

normalize_whatsapp_key(phone) ==
    LET digits == SelectSeq(phone, LAMBDA c : c \in Digits)
    IN  IF Len(phone) = 0 THEN None
        ELSE IF Len(digits) = 0 THEN None
        ELSE digits

\* "x or ''" for a nullable text column
OrEmpty(x) == IF x = None THEN <<>> ELSE x

\* "x.strip() or None"
StripOrNone(x) == IF Strip(x) = <<>> THEN None ELSE Strip(x)

-----------------------------------------------------------------------------
(* Items and totals *)

\* sum of a sequence of integers
SumSeq(s) ==
    LET acc[i \in 0..Len(s)] == IF i = 0 THEN 0 ELSE acc[i - 1] + s[i]
    IN  acc[Len(s)]

SumLineTotals(items) == SumSeq([i \in 1..Len(items) |-> items[i].line_total_cents])
SumPercents(stages) == SumSeq([i \in 1..Len(stages) |-> stages[i].percent])
SumAmounts(stages) == SumSeq([i \in 1..Len(stages) |-> stages[i].amount_cents])

\* a float as the pair num / 10^scale without trailing zeros in the fraction
TrailingZeros(num, scale) == MaxOf({j \in 0..scale : num % Pow10(j) = 0})

DropZeros(num, scale, z) == [num |-> num \div Pow10(z), scale |-> scale - z]

NormFloat(num, scale) == DropZeros(num, scale, TrailingZeros(num, scale))

\* lines 252-257: the quantity of a form row
\* variant: a quantity of 0 or below is kept
qty_of_float_unchecked(f) ==
    IF ~f.ok THEN [num |-> 1, scale |-> 0] ELSE NormFloat(f.num, f.scale)

qty_of_float(f) ==
    IF ~f.ok THEN [num |-> 1, scale |-> 0]
    ELSE IF f.neg \/ f.num = 0 THEN [num |-> 1, scale |-> 0]
    ELSE NormFloat(f.num, f.scale)

parse_qty(text) ==
    qty_of_float(ParseFloat(Replace(IF Len(text) = 0 THEN <<"1">> ELSE text, ",", ".")))

line_total(q, up_cents) == Round(q.num * up_cents, Pow10(q.scale))

\* lines 262-271: the ProposalItem row
item_row(i, d, q, u, up_cents) ==
    [sort |-> i - 1,
     description |-> d,
     qty |-> q,
     unit |-> u,
     unit_price_cents |-> up_cents,
     line_total_cents |-> line_total(q, up_cents)]

unit_or_default(u) == IF u = <<>> THEN <<"u", "n">> ELSE u

build_item(i, d, qty, unit, unit_price) ==
    item_row(i, Strip(d), parse_qty(qty), unit_or_default(Strip(unit)),
             brl_to_cents(IF Len(unit_price) = 0 THEN <<"0">> ELSE unit_price))

rebuild_items_from_form(descs, qtys, units, unit_prices) ==
    SelectSeq([i \in 1..Min2(Min2(Len(descs), Len(qtys)), Min2(Len(units), Len(unit_prices))) |->
                  build_item(i, descs[i], qtys[i], units[i], unit_prices[i])],
              LAMBDA it : it.description # <<>>)

\* lines 238-242 for the sum base of the line totals
total_of_base(base, overhead, margin) ==
    Max2(0, base + Round(base * overhead, 100) + Round(base * margin, 100))

\* variant: a negative percentage is used as it is
compute_total_unclamped(items, overhead_percent, margin_percent) ==
    total_of_base(SumLineTotals(items), overhead_percent, margin_percent)

compute_total(items, overhead_percent, margin_percent) ==
    total_of_base(SumLineTotals(items), Max2(0, overhead_percent), Max2(0, margin_percent))

-----------------------------------------------------------------------------
(* Payment stages *)

AVista == "A vista"

plan_to_percents(payment_plan) ==
    CASE payment_plan = "entrada_final_50" ->
            <<[title |-> "Entrada", percent |-> 50], [title |-> "Na entrega", percent |-> 50]>>
      [] payment_plan = "entrada_final_30" ->
            <<[title |-> "Entrada", percent |-> 30], [title |-> "Na entrega", percent |-> 70]>>
      [] payment_plan = "3x_30_40_30" ->
            <<[title |-> "Entrada", percent |-> 30],
              [title |-> "Durante o servico", percent |-> 40],
              [title |-> "Na entrega", percent |-> 30]>>
      [] OTHER -> <<[title |-> AVista, percent |-> 100]>>

clamp_percent(x) == Max2(0, Min2(100, x))

\* lines 288-289: every percent brought into 0..100
clamped_plan(plan) ==
    [i \in 1..Len(plan) |->
        [title |-> plan[i].title, percent |-> clamp_percent(plan[i].percent)]]

\* lines 293-294: one stage at 100 when nothing is left
or_a_vista(kept) == IF kept = <<>> THEN <<[title |-> AVista, percent |-> 100]>> ELSE kept

\* variant: the entries at 0 are kept
cleaned_plan_keep_zero(plan) == or_a_vista(clamped_plan(plan))

\* lines 287-294: clamp, drop the entries at 0, fall back to one stage at 100
cleaned_plan(plan) == or_a_vista(SelectSeq(clamped_plan(plan), LAMBDA e : e.percent > 0))

\* lines 296-300: the last entry takes the difference to 100
normalize_last(cleaned) ==
    IF SumPercents(cleaned) # 100
    THEN [cleaned EXCEPT
            ![Len(cleaned)].percent = clamp_percent(@ + (100 - SumPercents(cleaned)))]
    ELSE cleaned

\* lines 304-305
amt(total, percent) == Round(total * percent, 100)

\* lines 312-313: the rows inserted for proposal total total_cents
stage_rows(total_cents, cleaned) ==
    [i \in 1..Len(cleaned) |->
        [title |-> cleaned[i].title,
         percent |-> cleaned[i].percent,
         amount_cents |-> amt(total_cents, cleaned[i].percent),
         status |-> "pending"]]

\* variant: the existing rows are not deleted
upsert_payment_stages_keep_existing(p, plan) ==
    [p EXCEPT !.payment_stages =
        @ \o stage_rows(p.total_cents, normalize_last(cleaned_plan(plan)))]

\* the payment_stages of proposal row p after upsert_payment_stages(db, p, plan):
\* the existing rows are deleted, the new ones inserted
upsert_payment_stages(p, plan) ==
    [p EXCEPT !.payment_stages = stage_rows(p.total_cents, normalize_last(cleaned_plan(plan)))]

-----------------------------------------------------------------------------
(* Catalog helpers: services and clients *)

ProposalLimitDefault == 5

is_pro_active(u) ==
    IF u.plan = "pro"
    THEN IF u.paid_until # NoTime /\ u.paid_until >= now THEN TRUE
         ELSE IF u.paid_until = NoTime THEN TRUE
         ELSE FALSE
    ELSE IF u.paid_until # NoTime /\ u.paid_until >= now THEN TRUE
    ELSE FALSE

\* variant: the comparison is strict
over_limit_strict(u, table) ==
    /\ ~is_pro_active(u)
    /\ Cardinality(DOMAIN table) >
          (IF u.proposal_limit = 0 THEN ProposalLimitDefault ELSE u.proposal_limit)

\* "count >= (user.proposal_limit or 5)" of the free plan
over_limit(u, table) ==
    /\ ~is_pro_active(u)
    /\ Cardinality(DOMAIN table) >=
          (IF u.proposal_limit = 0 THEN ProposalLimitDefault ELSE u.proposal_limit)

\* the service row a form selects, 0 when none
selected_service(tbl, service_id) ==
    IF service_id \in 1..Len(tbl) /\ ~tbl[service_id].archived THEN service_id ELSE 0

\* defaults of the selected service for the fields the form left blank
with_service_defaults(s, form) ==
    [form EXCEPT
        !.project_name = IF Strip(@) = <<>> THEN s.title ELSE @,
        !.price = IF Strip(@) = <<>> /\ s.default_price_cents > 0
                  THEN cents_to_brl(s.default_price_cents) ELSE @,
        !.payment_plan = IF @ \in {"", "avista"} /\ s.default_payment_plan # ""
                         THEN s.default_payment_plan ELSE @]

apply_service_defaults(tbl, form) ==
    IF selected_service(tbl, form.service_id) = 0 THEN form
    ELSE with_service_defaults(tbl[selected_service(tbl, form.service_id)], form)

selected_client(tbl, client_id) ==
    IF client_id \in 1..Len(tbl) /\ ~tbl[client_id].archived THEN client_id ELSE 0

\* name and contact of the selected client for the fields the form left blank
with_client_defaults(c, form) ==
    [form EXCEPT
        !.client_name = IF Strip(@) = <<>> THEN c.name ELSE @,
        !.client_whatsapp = IF Strip(@) = <<>> /\ OrEmpty(c.whatsapp) # <<>>
                            THEN c.whatsapp ELSE @]

apply_client_defaults(tbl, form) ==
    IF selected_client(tbl, form.client_id) = 0 THEN form
    ELSE with_client_defaults(tbl[selected_client(tbl, form.client_id)], form)

\* ILIKE of a pattern without wildcards
ILike(text, pattern) == Lower(text) = Lower(pattern)

\* lines 347 and 352-356: the live clients whose contact has the digits wkey
clients_by_phone(tbl, wkey) ==
    {i \in 1..Len(tbl) : /\ ~tbl[i].archived
                          /\ tbl[i].whatsapp # None
                          /\ normalize_whatsapp_key(OrEmpty(tbl[i].whatsapp)) = wkey}

\* lines 347 and 359: the live clients named n, whatever the case
clients_by_name(tbl, n) == {i \in 1..Len(tbl) : ~tbl[i].archived /\ ILike(tbl[i].name, n)}

\* lines 349-359: the client found, 0 when none
find_client(tbl, n, wkey) ==
    IF wkey # None /\ clients_by_phone(tbl, wkey) # {} THEN MinOf(clients_by_phone(tbl, wkey))
    ELSE IF clients_by_name(tbl, n) # {} THEN MinOf(clients_by_name(tbl, n))
    ELSE 0

\* lines 361-374: the client found takes the contact it lacked and the name given
updated_client(c, n, w) ==
    [c EXCEPT !.whatsapp = IF w # None /\ OrEmpty(@) = <<>> THEN w ELSE @,
              !.name = IF n # <<>> /\ @ # n THEN n ELSE @]

\* lines 361-380
upsert_found(tbl, found, n, w) ==
    IF found # 0
    THEN [clients |-> [tbl EXCEPT ![found] = updated_client(@, n, w)], id |-> found]
    ELSE [clients |-> Append(tbl, [name |-> n, whatsapp |-> w, archived |-> FALSE]),
          id |-> Len(tbl) + 1]

upsert_stripped(tbl, n, w) ==
    upsert_found(tbl, find_client(tbl, n, normalize_whatsapp_key(OrEmpty(w))), n, w)

\* result of upsert_client_for_user: the table afterwards and the id returned
upsert_client_for_user(tbl, name, whatsapp) ==
    upsert_stripped(tbl, Strip(name), StripOrNone(OrEmpty(whatsapp)))

\* lines 937-943 and 1113-1119: the client upserted from a non-blank name, none
\* (id 0) from a blank one
client_of_form(tbl, f) ==
    IF Strip(f.client_name) # <<>>
    THEN upsert_client_for_user(tbl, f.client_name,
                                IF f.client_whatsapp = <<>> THEN None ELSE f.client_whatsapp)
    ELSE [clients |-> tbl, id |-> 0]

\* the client a create or edit request ends up with: the selected one, else the
\* one of the form
resolve_client(tbl, form) ==
    IF selected_client(tbl, form.client_id) # 0
    THEN [clients |-> tbl, id |-> selected_client(tbl, form.client_id)]
    ELSE client_of_form(tbl, apply_client_defaults(tbl, form))

-----------------------------------------------------------------------------
(* Proposal rows *)

Statuses == {"created", "sent", "viewed", "accepted"}

StatusRank(s) ==
    CASE s = "created" -> 0 [] s = "sent" -> 1 [] s = "viewed" -> 2 [] s = "accepted" -> 3

\* variant: the price never replaces the computed total
total_items_only(saved_items, price) == compute_total(saved_items, 0, 0)

\* lines 971-976 and 1142-1147: the computed total, or the price when it parses
\* to a positive amount
total_with_override(saved_items, price) ==
    IF brl_to_cents(Strip(price)) > 0 THEN brl_to_cents(Strip(price))
    ELSE compute_total(saved_items, 0, 0)

form_items(form) ==
    rebuild_items_from_form(form.item_desc, form.item_qty, form.item_unit, form.item_unit_price)

\* the text float() is given for a quantity, without blanks and sign, in lower case
qty_word(text) ==
    Lower(ParseSignedBody(Strip(Replace(IF Len(text) = 0 THEN <<"1">> ELSE text, ",", "."))))

qty_negative(text) ==
    \E t \in {Strip(Replace(IF Len(text) = 0 THEN <<"1">> ELSE text, ",", "."))} :
        Len(t) > 0 /\ t[1] = "-"

\* lines 253-261: float() reads the quantity as nan, or as an infinity that the
\* test q <= 0 lets through, and int(round(q * up_cents)) raises
qty_raises(text) ==
    \/ qty_word(text) = <<"n", "a", "n">>
    \/ /\ qty_word(text) \in {<<"i", "n", "f">>, <<"i", "n", "f", "i", "n", "i", "t", "y">>}
       /\ ~qty_negative(text)

\* rebuild_items_from_form raises: a row with a description has such a quantity
items_raise(form) ==
    \E i \in 1..Min2(Min2(Len(form.item_desc), Len(form.item_qty)),
                      Min2(Len(form.item_unit), Len(form.item_unit_price))) :
        Strip(form.item_desc[i]) # <<>> /\ qty_raises(form.item_qty[i])

\* lines 947-981: the Proposal row with its items and its total
proposal_row(form, client_id, items, total_cents) ==
    [client_id |-> client_id,
     client_name |-> Strip(form.client_name),
     client_whatsapp |-> StripOrNone(form.client_whatsapp),
     project_name |-> Strip(form.project_name),
     price |-> cents_to_brl(total_cents),
     status |-> "created",
     view_count |-> 0,
     first_viewed_at |-> NoTime,
     last_viewed_at |-> NoTime,
     last_activity_at |-> now,
     revision |-> 1,
     total_cents |-> total_cents,
     accepted_at |-> NoTime,
     accepted_name |-> None,
     accepted_email |-> None,
     items |-> items,
     payment_stages |-> <<>>,
     versions |-> <<>>]

\* lines 965-981: the row priced from its saved items
priced_proposal(form, client_id, items) ==
    proposal_row(form, client_id, items, total_with_override(items, form.price))

\* lines 947-983: the row create_proposal leaves for an accepted request
new_proposal(form, client_id) ==
    upsert_payment_stages(priced_proposal(form, client_id, form_items(form)),
                          plan_to_percents(form.payment_plan))

\* lines 1067-1086: the dictionary serialized into snapshot_json
snapshot_of(p) ==
    [revision |-> p.revision,
     client_id |-> p.client_id,
     client_name |-> p.client_name,
     client_whatsapp |-> p.client_whatsapp,
     project_name |-> p.project_name,
     price |-> p.price,
     total_cents |-> p.total_cents,
     items |-> [i \in 1..Len(p.items) |->
                  [description |-> p.items[i].description,
                   qty |-> p.items[i].qty,
                   unit |-> p.items[i].unit,
                   unit_price_cents |-> p.items[i].unit_price_cents,
                   line_total_cents |-> p.items[i].line_total_cents]],
     payment_stages |-> p.payment_stages]

\* line 1087: the ProposalVersion row
version_row(p) == [revision |-> p.revision, snapshot |-> snapshot_of(p)]

\* variant: the counter is not incremented
next_revision_same(revision) == revision

\* line 1121
next_revision(revision) == revision + 1

\* variant: the version row is built after the edit has been applied
edited_proposal_snapshot_after(p, form, client_id) ==
    LET items == form_items(form)
        total_cents == total_with_override(items, form.price)
        q == [p EXCEPT
                !.client_id = IF client_id # 0 THEN client_id ELSE @,
                !.last_activity_at = now,
                !.client_name = Strip(form.client_name),
                !.client_whatsapp = StripOrNone(form.client_whatsapp),
                !.project_name = Strip(form.project_name),
                !.items = items,
                !.total_cents = total_cents,
                !.price = cents_to_brl(total_cents)]
        r == upsert_payment_stages(q, plan_to_percents(form.payment_plan))
    IN  [r EXCEPT !.versions = Append(@, version_row(r)),
                  !.revision = next_revision(@)]

\* lines 1087-1154: the row edit_proposal_save leaves; client_id is the client
\* resolved for the request, 0 when the request resolves none
\* lines 1087-1152: the row with its version, its new items and its new total
edited_row(p, form, client_id, items, total_cents) ==
    [p EXCEPT
        !.versions = Append(@, version_row(p)),
        !.client_id = IF client_id # 0 THEN client_id ELSE @,
        !.revision = next_revision(@),
        !.last_activity_at = now,
        !.client_name = Strip(form.client_name),
        !.client_whatsapp = StripOrNone(form.client_whatsapp),
        !.project_name = Strip(form.project_name),
        !.items = items,
        !.total_cents = total_cents,
        !.price = cents_to_brl(total_cents)]

\* lines 1136-1152: the row priced from its saved items
priced_edit(p, form, client_id, items) ==
    edited_row(p, form, client_id, items, total_with_override(items, form.price))

\* variant: the new version row replaces the ones before it
edited_proposal_last_version_only(p, form, client_id) ==
    [upsert_payment_stages(priced_edit(p, form, client_id, form_items(form)),
                           plan_to_percents(form.payment_plan))
        EXCEPT !.versions = <<version_row(p)>>]

\* variant: the stages are written before the new total is
edited_proposal_stale_stages(p, form, client_id) ==
    [priced_edit(p, form, client_id, form_items(form)) EXCEPT
        !.payment_stages =
            stage_rows(p.total_cents,
                       normalize_last(cleaned_plan(plan_to_percents(form.payment_plan))))]

edited_proposal(p, form, client_id) ==
    upsert_payment_stages(priced_edit(p, form, client_id, form_items(form)),
                          plan_to_percents(form.payment_plan))

\* variant: the status is set whatever it was
sent_proposal_unguarded(p) ==
    [p EXCEPT !.status = "sent", !.last_activity_at = now]

\* variant: the send sets the status and forgets the activity time
sent_proposal_status_only(p) ==
    [p EXCEPT !.status = IF @ # "accepted" THEN "sent" ELSE @]

\* lines 1005-1007
sent_proposal(p) ==
    [p EXCEPT !.status = IF @ # "accepted" THEN "sent" ELSE @,
              !.last_activity_at = now]

DebounceMinutes == 10

\* variant: every load counts
should_count_always(last_seen) == TRUE

\* lines 1305-1312
should_count(last_seen) ==
    IF last_seen # NoTime
    THEN IF now - last_seen < DebounceMinutes THEN FALSE ELSE TRUE
    ELSE TRUE

\* variant: every counted view sets first_viewed_at
viewed_proposal_first_overwritten(p) ==
    [p EXCEPT !.view_count = @ + 1,
              !.first_viewed_at = now,
              !.last_viewed_at = now,
              !.last_activity_at = now,
              !.status = IF @ \in {"sent", "created"} /\ p.accepted_at = NoTime
                         THEN "viewed" ELSE @]

\* lines 1315-1321
viewed_proposal(p) ==
    [p EXCEPT !.view_count = @ + 1,
              !.first_viewed_at = IF @ = NoTime THEN now ELSE @,
              !.last_viewed_at = now,
              !.last_activity_at = now,
              !.status = IF @ \in {"sent", "created"} /\ p.accepted_at = NoTime
                         THEN "viewed" ELSE @]

\* variant: every submission records the acceptance
accepted_proposal_overwrite(p, name, email) ==
    [p EXCEPT !.accepted_at = now,
              !.accepted_name = Strip(name),
              !.accepted_email = StripOrNone(email),
              !.status = "accepted",
              !.last_activity_at = now]

\* lines 1345-1350
accepted_proposal(p, name, email) ==
    IF p.accepted_at = NoTime
    THEN [p EXCEPT !.accepted_at = now,
                   !.accepted_name = Strip(name),
                   !.accepted_email = StripOrNone(email),
                   !.status = "accepted",
                   !.last_activity_at = now]
    ELSE p

-----------------------------------------------------------------------------
(* Requests: the values the handlers receive *)

\* proposal ids in use: every handler reads and writes the one proposal its
\* request names
ProposalIds == {1}
Browsers == {"b1"}

NameAna == <<"A", "n", "a">>
NameBia == <<" ", "B", "i", "a">>
PhoneOk == <<"(", "1", "1", ")", "9", "8", "7", "6", "5", "4", "3", "2", "1">>
PhoneBad == <<"1", "2", "3">>

\* one line, 2 x R$ 50,00
FormItems ==
    [client_id |-> 0, service_id |-> 0,
     client_name |-> NameAna, client_whatsapp |-> PhoneOk,
     project_name |-> <<"P">>, price |-> <<>>, payment_plan |-> "entrada_final_50",
     item_desc |-> << <<"C">> >>, item_qty |-> << <<"2">> >>,
     item_unit |-> << <<>> >>, item_unit_price |-> << <<"5", "0", ",", "0", "0">> >>]

\* a negotiated price of R$ 1.500,00 over one line of 1,5 x R$ 100 and a blank line;
\* no client contact
FormOverride ==
    [client_id |-> 0, service_id |-> 0,
     client_name |-> NameBia, client_whatsapp |-> <<>>,
     project_name |-> <<"Q">>,
     price |-> <<"1", ".", "5", "0", "0", ",", "0", "0">>,
     payment_plan |-> "3x_30_40_30",
     item_desc |-> << <<"D">>, <<" ">> >>, item_qty |-> << <<"1", ",", "5">>, <<"1">> >>,
     item_unit |-> << <<"h">>, <<>> >>,
     item_unit_price |-> << <<"1", "0", "0">>, <<"9">> >>]

\* a price and a quantity that do not parse, an unknown plan, an invalid contact;
\* the saved client 1 is selected and the name left blank
FormJunk ==
    [client_id |-> 1, service_id |-> 0,
     client_name |-> <<>>, client_whatsapp |-> PhoneBad,
     project_name |-> <<"J">>, price |-> <<"a", "b", "c">>, payment_plan |-> "outro",
     item_desc |-> << <<"E">> >>, item_qty |-> << <<"x">> >>,
     item_unit |-> << <<"u", "n">> >>,
     item_unit_price |-> << <<"2", "5", "0", ",", "5", "0">> >>]

\* the saved service 1 is selected; title, price and plan are left to its defaults
FormService ==
    [client_id |-> 0, service_id |-> 1,
     client_name |-> NameAna, client_whatsapp |-> PhoneOk,
     project_name |-> <<>>, price |-> <<" ">>, payment_plan |-> "avista",
     item_desc |-> << <<"C">> >>, item_qty |-> << <<"2">> >>,
     item_unit |-> << <<>> >>, item_unit_price |-> << <<"5", "0", ",", "0", "0">> >>]

Forms == {FormItems, FormOverride, FormJunk, FormService}

ServiceForms ==
    {[title |-> <<"S">>, default_price |-> <<"1", "5", "0">>,
      default_payment_plan |-> "entrada_final_30"]}

AcceptForms ==
    {[name |-> <<"Z", "e">>, email |-> <<>>],
     [name |-> <<" ", "L", "u">>, email |-> <<"l", "@", "x">>]}

NoCall == [plan |-> <<>>, done |-> FALSE]

-----------------------------------------------------------------------------
(* Handlers *)

\* register, line 444: a user of the free plan
Init ==
    /\ now = 0
    /\ user = [plan |-> "free", proposal_limit |-> 5, delete_credits |-> 1,
               paid_until |-> NoTime]
    /\ services = <<>>
    /\ clients = <<>>
    /\ proposals = <<>>
    /\ cookies = [b \in Browsers |-> [id \in ProposalIds |-> NoTime]]
    /\ call = NoCall

\* time passes between two requests
Tick ==
    /\ now + TickMinutes <= MaxTime
    /\ now' = now + TickMinutes
    /\ UNCHANGED <<user, services, clients, proposals, cookies, call>>

ServicesNew(f) ==
    /\ Len(services) < MaxServices
    /\ services' = Append(services,
          [title |-> Strip(f.title),
           default_price_cents |-> brl_to_cents(f.default_price),
           default_payment_plan |-> IF f.default_payment_plan = "" THEN "avista"
                                    ELSE f.default_payment_plan,
           archived |-> FALSE])
    /\ UNCHANGED <<now, user, clients, proposals, cookies, call>>

NewId(table) == IF DOMAIN table = {} THEN 1
                ELSE (CHOOSE x \in DOMAIN table : \A y \in DOMAIN table : x >= y) + 1

\* tables proposals and clients after create_proposal has served form
\* lines 926-983 for the form f0 that carries the service's defaults, rc the
\* client resolved for it
created_with_client(table, ctable, f0, rc) ==
    [proposals |-> table @@ (NewId(table) :>
                      new_proposal(apply_client_defaults(ctable, f0), rc.id)),
     clients |-> rc.clients]

created_with_service(table, ctable, f0) ==
    created_with_client(table, ctable, f0, resolve_client(ctable, f0))

\* tables proposals and clients after create_proposal has served form
created_tables(table, ctable, stable, form) ==
    created_with_service(table, ctable, apply_service_defaults(stable, form))

CreateProposal(form) ==
    /\ NewId(proposals) \in ProposalIds
    /\ IF over_limit(user, proposals)
       THEN UNCHANGED <<proposals, clients>>
       ELSE \E t \in {created_tables(proposals, clients, services, form)} :
               /\ proposals' = t.proposals
               /\ clients' = t.clients
    /\ UNCHANGED <<now, user, services, cookies, call>>

EditProposalSave(id, form) ==
    /\ id \in DOMAIN proposals
    /\ proposals[id].revision <= MaxEdits
    /\ \E f0 \in {apply_service_defaults(services, form)} :
          \E rc \in {resolve_client(clients, f0)} :
             /\ proposals' = [proposals EXCEPT
                    ![id] = edited_proposal(@, apply_client_defaults(clients, f0), rc.id)]
             /\ clients' = rc.clients
    /\ UNCHANGED <<now, user, services, cookies, call>>

SendWhatsapp(id) ==
    /\ id \in DOMAIN proposals
    /\ IF normalize_phone_br(OrEmpty(proposals[id].client_whatsapp)) = None
       THEN UNCHANGED proposals
       ELSE proposals' = [proposals EXCEPT ![id] = sent_proposal(@)]
    /\ UNCHANGED <<now, user, services, clients, cookies, call>>

PublicProposal(id, b) ==
    /\ id \in DOMAIN proposals
    /\ IF should_count(cookies[b][id])
       THEN proposals' = [proposals EXCEPT ![id] = viewed_proposal(@)]
       ELSE UNCHANGED proposals
    /\ cookies' = [cookies EXCEPT ![b][id] = now]
    /\ UNCHANGED <<now, user, services, clients, call>>

AcceptProposal(id, name, email) ==
    /\ id \in DOMAIN proposals
    /\ proposals' = [proposals EXCEPT ![id] = accepted_proposal(@, name, email)]
    /\ UNCHANGED <<now, user, services, clients, cookies, call>>

Next ==
    \/ Tick
    \/ \E f \in ServiceForms : ServicesNew(f)
    \/ \E form \in Forms : CreateProposal(form)
    \/ \E id \in ProposalIds, form \in Forms : EditProposalSave(id, form)
    \/ \E id \in ProposalIds : SendWhatsapp(id)
    \/ \E id \in ProposalIds, b \in Browsers : PublicProposal(id, b)
    \/ \E id \in ProposalIds, a \in AcceptForms : AcceptProposal(id, a.name, a.email)

Spec == Init /\ [][Next]_vars

-----------------------------------------------------------------------------
(* upsert_payment_stages on its own: one call with an arbitrary plan *)

StageTotals == {0, 1, 9999, 10000, 10001, 123456}
StagePercents == {-10, 0, 30, 33, 34, 50, 80, 100, 150}

StageTitle(i) ==
    CASE i = 1 -> "Deposit" [] i = 2 -> "Delivery" [] i = 3 -> "Final" [] OTHER -> "Extra"

Plans ==
    UNION {{[i \in 1..n |-> [title |-> StageTitle(i), percent |-> ps[i]]] :
              ps \in [1..n -> StagePercents]} : n \in 0..MaxPlanLen}

\* a request that creates a proposal priced at total, paid 50/50
StageForm(total) ==
    [client_id |-> 0, service_id |-> 0,
     client_name |-> NameAna, client_whatsapp |-> PhoneOk,
     project_name |-> <<"P">>, price |-> cents_to_brl(total),
     payment_plan |-> "entrada_final_50",
     item_desc |-> <<>>, item_qty |-> <<>>, item_unit |-> <<>>, item_unit_price |-> <<>>]

InitStages ==
    /\ now = 0
    /\ user = [plan |-> "free", proposal_limit |-> 5, delete_credits |-> 1,
               paid_until |-> NoTime]
    /\ services = <<>>
    /\ cookies = [b \in Browsers |-> [id \in ProposalIds |-> NoTime]]
    /\ \E total \in StageTotals :
          \E t \in {created_tables(<<>>, <<>>, <<>>, StageForm(total))} :
             \E u \in {created_tables(t.proposals, t.clients, <<>>, FormOverride)} :
                /\ proposals = u.proposals
                /\ clients = u.clients
    /\ \E plan \in Plans : call = [plan |-> plan, done |-> FALSE]

UpsertPaymentStages(id) ==
    /\ id \in DOMAIN proposals
    /\ ~call.done
    /\ proposals' = [proposals EXCEPT ![id] = upsert_payment_stages(@, call.plan)]
    /\ call' = [call EXCEPT !.done = TRUE]
    /\ UNCHANGED <<now, user, services, clients, cookies>>

NextStages == \E id \in ProposalIds : UpsertPaymentStages(id)

SpecStages == InitStages /\ [][NextStages]_vars

-----------------------------------------------------------------------------
(* Properties of upsert_payment_stages, checked under SpecStages *)

\* the stages stored for the proposal of the call
StoredStages == proposals[1].payment_stages

\* the plan's entries that survive: percent above 0, cut at 100
Survivors(plan) ==
    LET cut == [i \in 1..Len(plan) |->
                  [title |-> plan[i].title, percent |-> Min2(100, plan[i].percent)]]
    IN  SelectSeq(cut, LAMBDA e : e.percent >= 1)

\* C6: after upsert_payment_stages, for any plan, the percentages of the stored
\* stages sum to exactly 100.
C6_PercentsSumTo100 ==
    call.done => SumPercents(StoredStages) = 100

\* C7: for every total_cents >= 0 and every plan the stored amounts sum to exactly
\* total_cents, the last stage holding total_cents minus the earlier amounts;
\* 10001 split 33/33/34 gives 3300, 3300, 3401.
C7_AmountsSumToTotal ==
    call.done =>
        LET st == StoredStages
            n == Len(st)
        IN  /\ SumAmounts(st) = proposals[1].total_cents
            /\ st[n].amount_cents =
                  proposals[1].total_cents - SumAmounts(SubSeq(st, 1, n - 1))

\* C8: when the surviving percentages do not sum to 100, only the last surviving
\* stage changes, by 100 - sum; the others keep their clamped percent and position.
C8_OnlyLastAdjustedByDelta ==
    call.done =>
        LET surv == Survivors(call.plan)
            n == Len(surv)
            st == StoredStages
        IN  (n > 0 /\ SumPercents(surv) # 100) =>
                /\ Len(st) = n
                /\ \A i \in 1..n : st[i].title = surv[i].title
                /\ \A i \in 1..(n - 1) : st[i].percent = surv[i].percent
                /\ st[n].percent = surv[n].percent + (100 - SumPercents(surv))

\* C9: every plan entry whose percent clamped to 0..100 is 0 produces no stage, the
\* other entries produce one stage each, in plan order, at their clamped percent
\* (the last one possibly adjusted); when no entry survives exactly one stage is
\* stored, with percent 100 and amount total_cents.
C9_ClampDropFallback ==
    call.done =>
        LET surv == Survivors(call.plan)
            n == Len(surv)
            st == StoredStages
        IN  IF n = 0
            THEN st = <<[title |-> AVista, percent |-> 100,
                         amount_cents |-> proposals[1].total_cents,
                         status |-> "pending"]>>
            ELSE /\ Len(st) = n
                 /\ \A i \in 1..n : st[i].title = surv[i].title
                 /\ \A i \in 1..(n - 1) : st[i].percent = surv[i].percent
                 /\ SumPercents(surv) = 100 => st[n].percent = surv[n].percent

\* a call whose plan has entries, none of which survives, on a non-zero total
C9_Witness ==
    /\ call.done
    /\ Len(call.plan) = 2
    /\ \A i \in 1..Len(call.plan) : call.plan[i].percent <= 0
    /\ proposals[1].total_cents = 10001
    /\ Len(StoredStages) = 1

-----------------------------------------------------------------------------
(* Properties of the proposal lifecycle, checked under Spec *)

\* C1: no send, view, accept or edit moves the status of a proposal backward in
\* the order created < sent < viewed < accepted.
C1_StatusNeverBackward ==
    [][\A id \in DOMAIN proposals \cap DOMAIN proposals' :
          StatusRank(proposals'[id].status) >= StatusRank(proposals[id].status)]_vars

\* C2: the status is always one of created, sent, viewed, accepted; a new proposal
\* starts as created; a proposal that is accepted stays accepted through every
\* later operation.
C2_StatusAbsorbing ==
    [][\A id \in DOMAIN proposals' :
          /\ proposals'[id].status \in Statuses
          /\ id \notin DOMAIN proposals => proposals'[id].status = "created"
          /\ (id \in DOMAIN proposals /\ proposals[id].status = "accepted")
                => proposals'[id].status = "accepted"]_vars

\* an accepted proposal on which a later send, view or edit has acted
C2_Witness ==
    \E id \in DOMAIN proposals :
        /\ proposals[id].status = "accepted"
        /\ proposals[id].last_activity_at > proposals[id].accepted_at

\* C3: the first accept_proposal call sets accepted_at, accepted_name and
\* accepted_email from its own time, name and email; once accepted_at is set, no
\* accept (with any name and email), send, view or edit changes any of the three.
C3_AcceptanceRecordedOnce ==
    [][\A id \in DOMAIN proposals \cap DOMAIN proposals' :
          LET p == proposals[id]
              q == proposals'[id]
          IN  /\ p.accepted_at # NoTime =>
                    /\ q.accepted_at = p.accepted_at
                    /\ q.accepted_name = p.accepted_name
                    /\ q.accepted_email = p.accepted_email
              /\ \A a \in AcceptForms :
                    (p.accepted_at = NoTime /\ q # p /\ AcceptProposal(id, a.name, a.email)) =>
                        /\ q.accepted_at = now
                        /\ q.accepted_name = Strip(a.name)
                        /\ q.accepted_email = StripOrNone(a.email)
              /\ (p.accepted_at = NoTime /\ q.accepted_at # NoTime) =>
                    \E a \in AcceptForms : AcceptProposal(id, a.name, a.email)]_vars

\* a proposal accepted by Lu on which a later operation has acted
C3_Witness ==
    \E id \in DOMAIN proposals :
        /\ proposals[id].accepted_name = <<"L", "u">>
        /\ proposals[id].accepted_email = <<"l", "@", "x">>
        /\ proposals[id].accepted_at # NoTime
        /\ now > proposals[id].accepted_at
        /\ proposals[id].last_activity_at > proposals[id].accepted_at

\* C4: a proposal is created with revision 1; after N edits it has exactly N
\* version rows, numbered 1..N in creation order, and revision N + 1: each
\* edit_proposal_save adds 1 to revision and no other operation changes it.
C4_VersionsCountEdits ==
    /\ [](\A id \in DOMAIN proposals :
            /\ Len(proposals[id].versions) = proposals[id].revision - 1
            /\ \A i \in 1..Len(proposals[id].versions) :
                  proposals[id].versions[i].revision = i)
    /\ [][\A id \in DOMAIN proposals' :
            IF id \notin DOMAIN proposals
            THEN proposals'[id].revision = 1
            ELSE IF proposals'[id] # proposals[id]
                    /\ \E form \in Forms : EditProposalSave(id, form)
            THEN proposals'[id].revision = proposals[id].revision + 1
            ELSE proposals'[id].revision = proposals[id].revision]_vars

\* a proposal after two edits
C4_Witness ==
    \E id \in DOMAIN proposals :
        /\ proposals[id].revision = 3
        /\ Len(proposals[id].versions) = 2

\* C5: the version row an edit appends carries the revision the proposal had
\* before the edit, and its snapshot holds the client fields, total_cents, items
\* and payment stages stored before the edit changed anything.
C5_SnapshotIsPreEditState ==
    [][\A id \in DOMAIN proposals \cap DOMAIN proposals' :
          (proposals'[id] # proposals[id] /\ \E form \in Forms : EditProposalSave(id, form)) =>
              LET p == proposals[id]
                  q == proposals'[id]
                  v == q.versions[Len(q.versions)]
              IN  /\ Len(q.versions) = Len(p.versions) + 1
                  /\ v.revision = p.revision
                  /\ v.snapshot.revision = p.revision
                  /\ v.snapshot.client_id = p.client_id
                  /\ v.snapshot.client_name = p.client_name
                  /\ v.snapshot.client_whatsapp = p.client_whatsapp
                  /\ v.snapshot.total_cents = p.total_cents
                  /\ Len(v.snapshot.items) = Len(p.items)
                  /\ \A i \in 1..Len(p.items) :
                        /\ v.snapshot.items[i].description = p.items[i].description
                        /\ v.snapshot.items[i].qty = p.items[i].qty
                        /\ v.snapshot.items[i].unit = p.items[i].unit
                        /\ v.snapshot.items[i].unit_price_cents = p.items[i].unit_price_cents
                        /\ v.snapshot.items[i].line_total_cents = p.items[i].line_total_cents
                  /\ v.snapshot.payment_stages = p.payment_stages]_vars

\* an edited proposal whose client, total, items and stages all differ from the
\* ones in its first version row
C5_Witness ==
    \E id \in DOMAIN proposals :
        LET p == proposals[id]
        IN  /\ Len(p.versions) >= 1
            /\ p.versions[1].snapshot.client_name # p.client_name
            /\ p.versions[1].snapshot.total_cents # p.total_cents
            /\ Len(p.versions[1].snapshot.items) > 0
            /\ p.versions[1].snapshot.items[1].description # p.items[1].description
            /\ Len(p.versions[1].snapshot.payment_stages) # Len(p.payment_stages)

\* the total a finished create or edit must store when the price to honour is price
ExpectedTotal(price, row) ==
    IF brl_to_cents(Strip(price)) > 0
    THEN brl_to_cents(Strip(price))
    ELSE SumLineTotals(row.items)

-----------------------------------------------------------------------------
(* compute_total on its own: one call with arbitrary items and percentages *)

MaxItems == 2           \* items handed to compute_total

\* quantity and unit price in cents of the lines a call may carry
TotalLines ==
    {[qty |-> [num |-> 1, scale |-> 0], up_cents |-> 0],
     [qty |-> [num |-> 1, scale |-> 0], up_cents |-> 5],
     [qty |-> [num |-> 15, scale |-> 1], up_cents |-> 10],
     [qty |-> [num |-> 2, scale |-> 0], up_cents |-> 5000],
     [qty |-> [num |-> 1, scale |-> 0], up_cents |-> 12345]}

TotalPercents == {-5, 0, 10, 33, 50}

TotalItems ==
    UNION {{[i \in 1..n |-> item_row(i, <<"C">>, ls[i].qty, <<"u", "n">>, ls[i].up_cents)] :
              ls \in [1..n -> TotalLines]} : n \in 0..MaxItems}

InitTotals ==
    /\ now = 0
    /\ user = [plan |-> "free", proposal_limit |-> 5, delete_credits |-> 1,
               paid_until |-> NoTime]
    /\ services = <<>>
    /\ clients = <<>>
    /\ proposals = <<>>
    /\ cookies = [b \in Browsers |-> [id \in ProposalIds |-> NoTime]]
    /\ \E items \in TotalItems, overhead \in TotalPercents, margin \in TotalPercents :
          call = [items |-> items, overhead_percent |-> overhead,
                  margin_percent |-> margin, done |-> FALSE, total |-> 0]

ComputeTotal ==
    /\ ~call.done
    /\ call' = [call EXCEPT
                   !.done = TRUE,
                   !.total = compute_total(call.items, call.overhead_percent,
                                           call.margin_percent)]
    /\ UNCHANGED <<now, user, services, clients, proposals, cookies>>

NextTotals == ComputeTotal

SpecTotals == InitTotals /\ [][NextTotals]_vars

-----------------------------------------------------------------------------
(* Properties of compute_total, checked under SpecTotals *)

\* r is an integer nearest to n / 100
NearestHundredth(r, n) == 2 * (100 * r - n) <= 100 /\ 2 * (n - 100 * r) <= 100

\* the part a percentage adds to base: a nearest integer to base * percent / 100,
\* a negative percentage counting as 0
PercentParts(base, percent) ==
    {r \in {(base * Max2(0, percent)) \div 100, (base * Max2(0, percent)) \div 100 + 1} :
        NearestHundredth(r, base * Max2(0, percent))}

\* C11: compute_total returns base + round(base*overhead/100) + round(base*margin/100),
\* base being the sum of the items' line_total_cents and a negative percentage
\* counting as 0; the result is at least base; one line of 2 x 5000 cents with
\* overhead 10 and margin 0 gives base 10000 and total 11000.
C11_TotalIsBasePlusPercents ==
    call.done =>
        LET base == SumSeq([i \in 1..Len(call.items) |->
                              Round(call.items[i].qty.num * call.items[i].unit_price_cents,
                                    Pow10(call.items[i].qty.scale))])
        IN  /\ \E a \in PercentParts(base, call.overhead_percent) :
                  \E b \in PercentParts(base, call.margin_percent) :
                     call.total = base + a + b
            /\ call.total >= base
            /\ (/\ Len(call.items) = 1
                /\ call.items[1].qty = [num |-> 2, scale |-> 0]
                /\ call.items[1].unit_price_cents = 5000
                /\ call.overhead_percent = 10
                /\ call.margin_percent = 0) => (base = 10000 /\ call.total = 11000)

\* a finished call with two lines, a negative overhead and a margin that adds to
\* the base
C11_Witness ==
    /\ call.done
    /\ Len(call.items) = 2
    /\ call.overhead_percent < 0
    /\ call.margin_percent = 33
    /\ call.total > SumLineTotals(call.items)
    /\ SumLineTotals(call.items) = 10015

-----------------------------------------------------------------------------
(* Properties of the handlers, checked under Spec *)

\* C12: once a proposal is accepted, no later send, view, accept or edit changes
\* its last_activity_at.
C12_LastActivityFrozen ==
    [][\A id \in DOMAIN proposals \cap DOMAIN proposals' :
          proposals[id].accepted_at # NoTime =>
              proposals'[id].last_activity_at = proposals[id].last_activity_at]_vars

\* the tracking fields of a proposal row
Tracking(p) ==
    <<p.view_count, p.first_viewed_at, p.last_viewed_at, p.last_activity_at, p.status>>

\* C13: a view by a browser whose previous load of the same proposal was less
\* than 10 minutes earlier leaves view_count, first_viewed_at, last_viewed_at,
\* last_activity_at and status unchanged.
C13_RepeatViewNotTracked ==
    [][\A id \in DOMAIN proposals, b \in Browsers :
          (/\ cookies[b][id] # NoTime
           /\ now - cookies[b][id] < 10
           /\ PublicProposal(id, b)) =>
              Tracking(proposals'[id]) = Tracking(proposals[id])]_vars

\* a proposal viewed once, whose browser loaded it again 5 minutes after the
\* counted view
C13_Witness ==
    \E id \in DOMAIN proposals, b \in Browsers :
        /\ proposals[id].view_count = 1
        /\ proposals[id].last_viewed_at = 0
        /\ proposals[id].status = "viewed"
        /\ cookies[b][id] = 5

-----------------------------------------------------------------------------
(* edit_proposal_save commit by commit: proposals and clients hold what is
   committed, call the request being served *)

\* a quantity that float() reads as nan
FormNaN ==
    [client_id |-> 0, service_id |-> 0,
     client_name |-> NameBia, client_whatsapp |-> <<>>,
     project_name |-> <<"N">>, price |-> <<>>, payment_plan |-> "3x_30_40_30",
     item_desc |-> << <<"F">> >>, item_qty |-> << <<" ", "N", "a", "N">> >>,
     item_unit |-> << <<>> >>, item_unit_price |-> << <<"7">> >>]

EditForms == Forms \cup {FormNaN}

Idle == [pc |-> "idle"]

\* the service rows the owner has saved
SavedServices ==
    {[i \in 1..Len(fs) |->
        [title |-> Strip(fs[i].title),
         default_price_cents |-> brl_to_cents(fs[i].default_price),
         default_payment_plan |-> IF fs[i].default_payment_plan = "" THEN "avista"
                                  ELSE fs[i].default_payment_plan,
         archived |-> FALSE]] :
     fs \in UNION {[1..n -> ServiceForms] : n \in 0..MaxServices}}

InitEdit ==
    /\ now = 0
    /\ user = [plan |-> "free", proposal_limit |-> 5, delete_credits |-> 1,
               paid_until |-> NoTime]
    /\ services \in SavedServices
    /\ cookies = [b \in Browsers |-> [id \in ProposalIds |-> NoTime]]
    /\ \E form \in Forms :
          \E t \in {created_tables(<<>>, <<>>, services, form)} :
             /\ proposals = t.proposals
             /\ clients = t.clients
    /\ call = Idle

\* lines 1087-1088: the version row is committed
EditCommitVersion(id, form) ==
    /\ call.pc \in {"idle", "failed"}
    /\ id \in DOMAIN proposals
    /\ proposals[id].revision <= MaxEdits
    /\ proposals' = [proposals EXCEPT ![id].versions = Append(@, version_row(proposals[id]))]
    /\ call' = [pc |-> "version", id |-> id, form |-> form, client_id |-> 0,
                before |-> proposals[id]]
    /\ UNCHANGED <<now, user, services, clients, cookies>>

\* lines 1090-1119: defaults of the service, then the client, which
\* upsert_client_for_user commits
EditCommitClient ==
    /\ call.pc = "version"
    /\ \E f0 \in {apply_service_defaults(services, call.form)} :
          \E rc \in {resolve_client(clients, f0)} :
             /\ clients' = rc.clients
             /\ call' = [call EXCEPT !.pc = "client",
                                     !.form = apply_client_defaults(clients, f0),
                                     !.client_id = rc.id]
    /\ UNCHANGED <<now, user, services, proposals, cookies>>

\* lines 1121-1134: the fields of the row and the deletion of its items
edit_fields(p, form, client_id) ==
    [p EXCEPT
        !.client_id = IF client_id # 0 THEN client_id ELSE @,
        !.revision = next_revision(@),
        !.last_activity_at = now,
        !.client_name = Strip(form.client_name),
        !.client_whatsapp = StripOrNone(form.client_whatsapp),
        !.project_name = Strip(form.project_name),
        !.items = <<>>]

EditCommitFields ==
    /\ call.pc = "client"
    /\ proposals' = [proposals EXCEPT ![call.id] = edit_fields(@, call.form, call.client_id)]
    /\ call' = [call EXCEPT !.pc = "fields"]
    /\ UNCHANGED <<now, user, services, clients, cookies>>

\* lines 1136-1140: the items are rebuilt and committed, unless
\* rebuild_items_from_form raises and the request ends there
EditCommitItems ==
    /\ call.pc = "fields"
    /\ IF items_raise(call.form)
       THEN /\ call' = [call EXCEPT !.pc = "failed"]
            /\ UNCHANGED proposals
       ELSE /\ proposals' = [proposals EXCEPT ![call.id].items = form_items(call.form)]
            /\ call' = [call EXCEPT !.pc = "items"]
    /\ UNCHANGED <<now, user, services, clients, cookies>>

\* lines 1142-1152
edit_total(p, price) ==
    [p EXCEPT !.total_cents = total_with_override(p.items, price),
              !.price = cents_to_brl(total_with_override(p.items, price))]

EditCommitTotal ==
    /\ call.pc = "items"
    /\ proposals' = [proposals EXCEPT ![call.id] = edit_total(@, call.form.price)]
    /\ call' = [call EXCEPT !.pc = "total"]
    /\ UNCHANGED <<now, user, services, clients, cookies>>

\* lines 307-310: the existing stages are deleted and the deletion committed
EditCommitStagesDeleted ==
    /\ call.pc = "total"
    /\ proposals' = [proposals EXCEPT ![call.id].payment_stages = <<>>]
    /\ call' = [call EXCEPT !.pc = "stages_deleted"]
    /\ UNCHANGED <<now, user, services, clients, cookies>>

\* lines 312-314: the new stages are committed and the request ends
EditCommitStages ==
    /\ call.pc = "stages_deleted"
    /\ proposals' = [proposals EXCEPT
          ![call.id] = upsert_payment_stages(@, plan_to_percents(call.form.payment_plan))]
    /\ call' = [call EXCEPT !.pc = "idle"]
    /\ UNCHANGED <<now, user, services, clients, cookies>>

NextEdit ==
    \/ \E id \in ProposalIds, form \in EditForms : EditCommitVersion(id, form)
    \/ EditCommitClient
    \/ EditCommitFields
    \/ EditCommitItems
    \/ EditCommitTotal
    \/ EditCommitStagesDeleted
    \/ EditCommitStages

SpecEdit == InitEdit /\ [][NextEdit]_vars

-----------------------------------------------------------------------------
(* Properties of the edit, checked under SpecEdit *)

\* C14: when edit_proposal_save has failed, nothing of the edit is persisted:
\* no new version row, and revision, client fields, items, total_cents and
\* payment stages as before the request.
C14_FailedEditPersistsNothing ==
    call.pc = "failed" => proposals[call.id] = call.before

-----------------------------------------------------------------------------
(* The owner's proposals together: copies, deletion, services saved from them *)

MaxProposals == 2       \* proposal rows at a time

\* variant: the plan of the original is not read
plan_of_stages_a_vista(stages) == <<[title |-> AVista, percent |-> 100]>>

\* lines 1179-1211: the plan read back from the stages of the original
plan_of_stages(stages) ==
    IF stages = <<>> THEN <<[title |-> AVista, percent |-> 100]>>
    ELSE [i \in 1..Len(stages) |-> [title |-> stages[i].title, percent |-> stages[i].percent]]

\* variant: the copy takes the status of the original
duplicate_row_keep_status(original) ==
    [client_id |-> original.client_id,
     client_name |-> original.client_name,
     client_whatsapp |-> original.client_whatsapp,
     project_name |-> original.project_name,
     price |-> original.price,
     status |-> original.status,
     view_count |-> 0,
     first_viewed_at |-> NoTime,
     last_viewed_at |-> NoTime,
     last_activity_at |-> now,
     revision |-> 1,
     total_cents |-> original.total_cents,
     accepted_at |-> NoTime,
     accepted_name |-> None,
     accepted_email |-> None,
     items |-> original.items,
     payment_stages |-> <<>>,
     versions |-> <<>>]

\* lines 1175-1207: the copy with the items of the original
duplicate_row(original) ==
    [client_id |-> original.client_id,
     client_name |-> original.client_name,
     client_whatsapp |-> original.client_whatsapp,
     project_name |-> original.project_name,
     price |-> original.price,
     status |-> "created",
     view_count |-> 0,
     first_viewed_at |-> NoTime,
     last_viewed_at |-> NoTime,
     last_activity_at |-> now,
     revision |-> 1,
     total_cents |-> original.total_cents,
     accepted_at |-> NoTime,
     accepted_name |-> None,
     accepted_email |-> None,
     items |-> original.items,
     payment_stages |-> <<>>,
     versions |-> <<>>]

\* lines 1175-1211
duplicated_proposal(original) ==
    upsert_payment_stages(duplicate_row(original), plan_of_stages(original.payment_stages))

\* lines 550-586: the same copy, made by proposal_again
again_proposal(original) ==
    upsert_payment_stages(duplicate_row(original), plan_of_stages(original.payment_stages))

DuplicateProposal(id) ==
    /\ id \in DOMAIN proposals
    /\ NewId(proposals) <= MaxProposals
    /\ IF over_limit(user, proposals)
       THEN UNCHANGED proposals
       ELSE proposals' = proposals @@ (NewId(proposals) :> duplicated_proposal(proposals[id]))
    /\ UNCHANGED <<now, user, services, clients, cookies, call>>

ProposalAgain(id) ==
    /\ id \in DOMAIN proposals
    /\ NewId(proposals) <= MaxProposals
    /\ IF over_limit(user, proposals)
       THEN UNCHANGED proposals
       ELSE proposals' = proposals @@ (NewId(proposals) :> again_proposal(proposals[id]))
    /\ UNCHANGED <<now, user, services, clients, cookies, call>>

\* variant: the last credit is not seen as spent
delete_refused_below_zero(u) == ~is_pro_active(u) /\ u.plan = "free" /\ u.delete_credits < 0

\* lines 1227-1229
delete_refused(u) == ~is_pro_active(u) /\ u.plan = "free" /\ u.delete_credits <= 0

\* lines 1227-1249: the credit a deletion costs a user of the free plan
user_after_delete(u) ==
    IF ~is_pro_active(u) /\ u.plan = "free"
    THEN [u EXCEPT !.delete_credits = @ - 1]
    ELSE u

\* lines 1251-1253: the row goes, and with it its items, versions and stages
without_proposal(table, id) == [i \in DOMAIN table \ {id} |-> table[i]]

DeleteProposal(id) ==
    /\ id \in DOMAIN proposals
    /\ IF delete_refused(user)
       THEN UNCHANGED <<user, proposals>>
       ELSE /\ user' = user_after_delete(user)
            /\ proposals' = without_proposal(proposals, id)
    /\ UNCHANGED <<now, services, clients, cookies, call>>

\* line 1267
service_title(p) == IF Strip(p.project_name) = <<>>
                    THEN <<"M", "e", "u", " ", "s", "e", "r", "v", "i", "c", "o">>
                    ELSE Strip(p.project_name)

\* line 1269: the live services titled title
services_titled(tbl, title) == {i \in 1..Len(tbl) : tbl[i].title = title /\ ~tbl[i].archived}

\* lines 1269-1287
services_after_save(tbl, p) ==
    IF services_titled(tbl, service_title(p)) # {}
    THEN [tbl EXCEPT ![MinOf(services_titled(tbl, service_title(p)))].default_price_cents =
                        p.total_cents]
    ELSE Append(tbl, [title |-> service_title(p),
                      default_price_cents |-> p.total_cents,
                      default_payment_plan |-> "avista",
                      archived |-> FALSE])

SaveProposalAsService(id) ==
    /\ id \in DOMAIN proposals
    /\ Len(services_after_save(services, proposals[id])) <= MaxServices
    /\ services' = services_after_save(services, proposals[id])
    /\ UNCHANGED <<now, user, clients, proposals, cookies, call>>

OwnerIds == 1..MaxProposals

\* the requests of this part: a proposal made from FormItems, edited to
\* FormOverride and accepted by one name
OwnerForms == {FormOverride}
OwnerAcceptForms == {[name |-> <<"Z", "e">>, email |-> <<>>]}

InitOwner ==
    /\ now = 0
    /\ user = [plan |-> "free", proposal_limit |-> 5, delete_credits |-> 1,
               paid_until |-> NoTime]
    /\ services = <<>>
    /\ cookies = [b \in Browsers |-> [id \in ProposalIds |-> NoTime]]
    /\ \E t \in {created_tables(<<>>, <<>>, <<>>, FormItems)} :
          /\ proposals = t.proposals
          /\ clients = t.clients
    /\ call = NoCall

NextOwner ==
    \/ \E id \in OwnerIds, form \in OwnerForms : EditProposalSave(id, form)
    \/ \E id \in OwnerIds : SendWhatsapp(id)
    \/ \E id \in ProposalIds, b \in Browsers : PublicProposal(id, b)
    \/ \E id \in OwnerIds, a \in OwnerAcceptForms : AcceptProposal(id, a.name, a.email)
    \/ \E id \in OwnerIds : DuplicateProposal(id)
    \/ \E id \in OwnerIds : ProposalAgain(id)
    \/ \E id \in OwnerIds : DeleteProposal(id)
    \/ \E id \in OwnerIds : SaveProposalAsService(id)

SpecOwner == InitOwner /\ [][NextOwner]_vars

-----------------------------------------------------------------------------
(* Properties of the owner's proposals, checked under SpecOwner *)

\* C15: while its proposal exists, no operation modifies or deletes an existing
\* version row; a proposal and its version rows leave only by delete_proposal.
C15_VersionsAppendOnly ==
    [][/\ \A id \in DOMAIN proposals \cap DOMAIN proposals' :
             /\ Len(proposals'[id].versions) >= Len(proposals[id].versions)
             /\ SubSeq(proposals'[id].versions, 1, Len(proposals[id].versions)) =
                    proposals[id].versions
       /\ \A id \in DOMAIN proposals \ DOMAIN proposals' : DeleteProposal(id)]_vars

\* a proposal with two version rows beside its copy, after another proposal
\* has been deleted
C15_Witness ==
    /\ user.delete_credits = 0
    /\ \E id \in DOMAIN proposals :
          /\ Len(proposals[id].versions) = 2
          /\ proposals[id].accepted_at # NoTime
          /\ proposals[id].view_count = 1
    /\ Cardinality(DOMAIN proposals) = 2
    /\ Len(services) = 1

-----------------------------------------------------------------------------
(* More properties of upsert_payment_stages, checked under SpecStages *)

\* titles of the stages a plan asks for: its entries above 0 in plan order, one
\* stage for a plan without any
PlanTitles(plan) ==
    IF Survivors(plan) = <<>> THEN <<AVista>>
    ELSE [i \in 1..Len(Survivors(plan)) |-> Survivors(plan)[i].title]

\* C16: after upsert_payment_stages the proposal's stages are exactly the stages
\* built from the plan, in plan order and all pending; no stage from before the
\* call remains, and the stages of the other proposal are unchanged.
C16_StagesReplacedWholesale ==
    call.done =>
        /\ [i \in 1..Len(StoredStages) |-> StoredStages[i].title] = PlanTitles(call.plan)
        /\ \A i \in 1..Len(StoredStages) :
              /\ StoredStages[i].status = "pending"
              /\ StoredStages[i].title \notin {"Entrada", "Na entrega"}
        /\ [i \in 1..Len(proposals[2].payment_stages) |->
                <<proposals[2].payment_stages[i].title,
                  proposals[2].payment_stages[i].percent,
                  proposals[2].payment_stages[i].amount_cents>>] =
              << <<"Entrada", 30, 45000>>, <<"Durante o servico", 40, 60000>>,
                 <<"Na entrega", 30, 45000>> >>

\* a proposal that had the stages Entrada and Na entrega and has three other
\* stages after the call
C16_Witness ==
    /\ call.done
    /\ Len(call.plan) = 3
    /\ Len(StoredStages) = 3
    /\ StoredStages[1].title = "Deposit"
    /\ StoredStages[3].title = "Final"
    /\ proposals[1].total_cents = 10001

-----------------------------------------------------------------------------
(* The items of an edit: one edit_proposal_save whose form carries arbitrary rows *)

MaxRows == 2            \* item rows of the submitted form

\* quantity texts with the value float() and the test q <= 0 leave: num / 10^scale
QtyTexts ==
    {[text |-> <<"1", ",", "5">>, num |-> 15, scale |-> 1],
     [text |-> <<".", "5">>, num |-> 5, scale |-> 1],
     [text |-> <<"0">>, num |-> 1, scale |-> 0],
     [text |-> <<"-", "3">>, num |-> 1, scale |-> 0],
     [text |-> <<"x">>, num |-> 1, scale |-> 0],
     [text |-> <<>>, num |-> 1, scale |-> 0]}

\* unit price texts with their value in cents
PriceTexts ==
    {[text |-> <<"5", "0", ",", "0", "0">>, cents |-> 5000],
     [text |-> <<>>, cents |-> 0],
     [text |-> <<"0", ",", "0", "5">>, cents |-> 5]}

DescTexts == {<<" ", "D">>, <<" ">>}

FormRows == [desc : DescTexts, qty : QtyTexts, unit_price : PriceTexts]

RowsForm(rows) ==
    [client_id |-> 0, service_id |-> 0,
     client_name |-> NameAna, client_whatsapp |-> PhoneOk,
     project_name |-> <<"P">>, price |-> <<>>, payment_plan |-> "avista",
     item_desc |-> [i \in 1..Len(rows) |-> rows[i].desc],
     item_qty |-> [i \in 1..Len(rows) |-> rows[i].qty.text],
     item_unit |-> [i \in 1..Len(rows) |-> <<>>],
     item_unit_price |-> [i \in 1..Len(rows) |-> rows[i].unit_price.text]]

InitItems ==
    /\ now = 0
    /\ user = [plan |-> "free", proposal_limit |-> 5, delete_credits |-> 1,
               paid_until |-> NoTime]
    /\ services = <<>>
    /\ cookies = [b \in Browsers |-> [id \in ProposalIds |-> NoTime]]
    /\ \E t \in {created_tables(<<>>, <<>>, <<>>, FormItems)} :
          /\ proposals = t.proposals
          /\ clients = t.clients
    /\ \E rows \in UNION {[1..n -> FormRows] : n \in 0..MaxRows} :
          call = [rows |-> rows, form |-> RowsForm(rows)]

NextItems ==
    \E id \in ProposalIds :
        /\ id \in DOMAIN proposals
        /\ proposals[id].revision = 1
        /\ EditProposalSave(id, call.form)

SpecItems == InitItems /\ [][NextItems]_vars

-----------------------------------------------------------------------------
(* Properties of the items, checked under SpecItems *)

\* the submitted rows that carry a description, in form order
DescribedRows == SelectSeq(call.rows, LAMBDA r : \E i \in 1..Len(r.desc) : r.desc[i] # " ")

\* C17: every item built has a quantity above 0, 1 for a quantity that does not
\* parse or is 0 or below, and line_total_cents = round(quantity x unit price);
\* a row without description gives no item; after edit_proposal_save the stored
\* items are exactly those built from the submitted form.
C17_ItemsBuiltFromForm ==
    proposals[1].revision = 2 =>
        LET items == proposals[1].items
        IN  /\ Len(items) = Len(DescribedRows)
            /\ \A i \in 1..Len(items) :
                  /\ items[i].description = <<"D">>
                  /\ items[i].qty.num > 0
                  /\ items[i].qty.num * Pow10(DescribedRows[i].qty.scale) =
                        DescribedRows[i].qty.num * Pow10(items[i].qty.scale)
                  /\ items[i].unit_price_cents = DescribedRows[i].unit_price.cents
                  /\ 2 * (Pow10(DescribedRows[i].qty.scale) * items[i].line_total_cents
                          - DescribedRows[i].qty.num * DescribedRows[i].unit_price.cents)
                        <= Pow10(DescribedRows[i].qty.scale)
                  /\ 2 * (DescribedRows[i].qty.num * DescribedRows[i].unit_price.cents
                          - Pow10(DescribedRows[i].qty.scale) * items[i].line_total_cents)
                        <= Pow10(DescribedRows[i].qty.scale)

\* an edit whose form had a row without description and a row with a negative
\* quantity: the one item stored has quantity 1
C17_Witness ==
    /\ proposals[1].revision = 2
    /\ Len(call.rows) = 2
    /\ call.rows[1].desc = <<" ">>
    /\ call.rows[2].qty.text = <<"-", "3">>
    /\ Len(proposals[1].items) = 1
    /\ proposals[1].items[1].qty = [num |-> 1, scale |-> 0]
    /\ proposals[1].items[1].line_total_cents = 5000

-----------------------------------------------------------------------------
(* The owner send, checked under Spec *)

\* C19: a send on a proposal that is not accepted and whose client contact
\* normalizes to a phone sets status to sent and last_activity_at to the current
\* time; with a missing or invalid contact the send leaves the proposal as it was.
C19_SendMarksSent ==
    [][\A id \in DOMAIN proposals :
          SendWhatsapp(id) =>
              IF normalize_phone_br(OrEmpty(proposals[id].client_whatsapp)) # None
              THEN /\ proposals'[id].last_activity_at = now
                   /\ proposals[id].status # "accepted" =>
                          proposals'[id].status = "sent"
              ELSE /\ proposals'[id].status = proposals[id].status
                   /\ proposals'[id].last_activity_at = proposals[id].last_activity_at
                   /\ proposals'[id] = proposals[id]]_vars

\* a proposal with a contact, never edited, viewed nor accepted, whose status
\* the send has set, at the time of the send
C19_Witness ==
    \E id \in DOMAIN proposals :
        /\ proposals[id].status = "sent"
        /\ proposals[id].client_whatsapp = PhoneOk
        /\ proposals[id].revision = 1
        /\ proposals[id].view_count = 0
        /\ proposals[id].accepted_at = NoTime
        /\ now > 0
        /\ proposals[id].last_activity_at = now

-----------------------------------------------------------------------------
(* The money codec on its own: one brl_to_cents and one cents_to_brl call *)

MaxTextLen == 3         \* characters of the text given to brl_to_cents

MoneyAlphabet == {"1", "5", ",", ".", "-", "a", " "}

MoneyTexts == UNION {[1..n -> MoneyAlphabet] : n \in 0..MaxTextLen}

CentAmounts == {-500, -1, 0, 1, 99, 123456}

InitMoney ==
    /\ now = 0
    /\ user = [plan |-> "free", proposal_limit |-> 5, delete_credits |-> 1,
               paid_until |-> NoTime]
    /\ services = <<>>
    /\ clients = <<>>
    /\ proposals = <<>>
    /\ cookies = [b \in Browsers |-> [id \in ProposalIds |-> NoTime]]
    /\ \E text \in MoneyTexts, cents \in CentAmounts :
          call = [text |-> text, cents |-> cents, parsed |-> FALSE, value |-> 0,
                  formatted |-> FALSE, shown |-> <<>>]

BrlToCents ==
    /\ ~call.parsed
    /\ call' = [call EXCEPT !.parsed = TRUE, !.value = brl_to_cents(call.text)]
    /\ UNCHANGED <<now, user, services, clients, proposals, cookies>>

CentsToBrl ==
    /\ ~call.formatted
    /\ call' = [call EXCEPT !.formatted = TRUE, !.shown = cents_to_brl(call.cents)]
    /\ UNCHANGED <<now, user, services, clients, proposals, cookies>>

NextMoney == BrlToCents \/ CentsToBrl

SpecMoney == InitMoney /\ [][NextMoney]_vars

-----------------------------------------------------------------------------
(* Properties of the money codec, checked under SpecMoney *)

\* the digits and separators of a text, in order
MoneyPart(text) == SelectSeq(text, LAMBDA c : c \in {"1", "5", ",", "."})

\* a money part that is no number: no digit, or more than one decimal point once
\* the thousands dots are dropped and the commas read as points
NotANumber(part) ==
    \/ \A i \in 1..Len(part) : part[i] \in {",", "."}
    \/ Count(part, ",") >= 2
    \/ Count(part, ",") = 0 /\ Count(part, ".") >= 2

\* C18: brl_to_cents returns 0 for the empty text and for a text that is no
\* number once every character but digits, comma and dot is dropped, and never a
\* negative amount; cents_to_brl shows a negative amount as 0.
C18_MoneyCodecTotal ==
    /\ call.parsed =>
          /\ call.value >= 0
          /\ call.text = <<>> => call.value = 0
          /\ NotANumber(MoneyPart(call.text)) => call.value = 0
          /\ call.text = <<"-", "1", "5">> => call.value = 1500
    /\ (call.formatted /\ call.cents < 0) =>
          call.shown = <<"R", "$", " ", "0", ",", "0", "0">>

\* both calls made, on a text with a sign and two commas and on a negative amount
C18_Witness ==
    /\ call.parsed
    /\ call.formatted
    /\ call.text = <<"-", ",", ",">>
    /\ call.cents = -500
    /\ call.value = 0

-----------------------------------------------------------------------------
(* Two edit_proposal_save requests on the same proposal, each in its own
   session of get_db, interleaved commit by commit. A request reads the rows as
   the last commit left them and writes at its next commit. *)

Requests == {1, 2}

RaceForms == {FormItems, FormOverride, FormJunk}

InitRace ==
    /\ now = 0
    /\ user = [plan |-> "free", proposal_limit |-> 5, delete_credits |-> 1,
               paid_until |-> NoTime]
    /\ services = <<>>
    /\ cookies = [b \in Browsers |-> [id \in ProposalIds |-> NoTime]]
    /\ \E t \in {created_tables(<<>>, <<>>, <<>>, FormItems)} :
          /\ proposals = t.proposals
          /\ clients = t.clients
    /\ call = [r \in Requests |-> Idle]

\* lines 1063-1088: the row is read and the version row committed
RaceCommitVersion(r, form) ==
    /\ call[r].pc = "idle"
    /\ proposals' = [proposals EXCEPT ![1].versions = Append(@, version_row(proposals[1]))]
    /\ call' = [call EXCEPT ![r] = [pc |-> "version", form |-> form, client_id |-> 0,
                                     total |-> 0]]
    /\ UNCHANGED <<now, user, services, clients, cookies>>

\* lines 1090-1119
RaceCommitClient(r) ==
    /\ call[r].pc = "version"
    /\ \E f0 \in {apply_service_defaults(services, call[r].form)} :
          \E rc \in {resolve_client(clients, f0)} :
             /\ clients' = rc.clients
             /\ call' = [call EXCEPT ![r].pc = "client",
                                     ![r].form = apply_client_defaults(clients, f0),
                                     ![r].client_id = rc.id]
    /\ UNCHANGED <<now, user, services, proposals, cookies>>

\* lines 1121-1134: the expired row is read again, its fields are set and the
\* items then in the table are deleted
RaceCommitFields(r) ==
    /\ call[r].pc = "client"
    /\ proposals' = [proposals EXCEPT
          ![1] = edit_fields(@, call[r].form, call[r].client_id)]
    /\ call' = [call EXCEPT ![r].pc = "fields"]
    /\ UNCHANGED <<now, user, services, clients, cookies>>

\* lines 1136-1140: the items of the form are inserted
RaceCommitItems(r) ==
    /\ call[r].pc = "fields"
    /\ proposals' = [proposals EXCEPT ![1].items = @ \o form_items(call[r].form)]
    /\ call' = [call EXCEPT ![r].pc = "items"]
    /\ UNCHANGED <<now, user, services, clients, cookies>>

\* lines 1142-1152: the total of the items then in the table, or the override
RaceCommitTotal(r) ==
    /\ call[r].pc = "items"
    /\ proposals' = [proposals EXCEPT ![1] = edit_total(@, call[r].form.price)]
    /\ call' = [call EXCEPT ![r].pc = "total"]
    /\ UNCHANGED <<now, user, services, clients, cookies>>

\* lines 302-310: total_cents is read from the expired row, the stages then in
\* the table are deleted
RaceCommitStagesDeleted(r) ==
    /\ call[r].pc = "total"
    /\ proposals' = [proposals EXCEPT ![1].payment_stages = <<>>]
    /\ call' = [call EXCEPT ![r].pc = "stages_deleted",
                            ![r].total = proposals[1].total_cents]
    /\ UNCHANGED <<now, user, services, clients, cookies>>

\* lines 312-314: the stages of the plan are inserted, with the total read before
RaceCommitStages(r) ==
    /\ call[r].pc = "stages_deleted"
    /\ proposals' = [proposals EXCEPT ![1].payment_stages =
          @ \o stage_rows(call[r].total,
                          normalize_last(cleaned_plan(plan_to_percents(call[r].form.payment_plan))))]
    /\ call' = [call EXCEPT ![r].pc = "done"]
    /\ UNCHANGED <<now, user, services, clients, cookies>>

NextRace ==
    \/ \E r \in Requests, form \in RaceForms : RaceCommitVersion(r, form)
    \/ \E r \in Requests : RaceCommitClient(r)
    \/ \E r \in Requests : RaceCommitFields(r)
    \/ \E r \in Requests : RaceCommitItems(r)
    \/ \E r \in Requests : RaceCommitTotal(r)
    \/ \E r \in Requests : RaceCommitStagesDeleted(r)
    \/ \E r \in Requests : RaceCommitStages(r)

SpecRace == InitRace /\ [][NextRace]_vars

-----------------------------------------------------------------------------
(* Properties of two interleaved edits, checked under SpecRace *)

\* the items, total and stages request r alone would leave
RaceOutcome(r) ==
    [items |-> form_items(call[r].form),
     total_cents |-> total_with_override(form_items(call[r].form), call[r].form.price),
     payment_stages |->
        stage_rows(total_with_override(form_items(call[r].form), call[r].form.price),
                   normalize_last(cleaned_plan(plan_to_percents(call[r].form.payment_plan))))]

\* C22: once two interleaved edits of the same proposal have both ended, its
\* items, total_cents and payment stages are those of one and the same edit, the
\* stage percentages sum to 100 and total_cents is the total of the stored items
\* or that edit's override.
C22_LastWriterWins ==
    (\A r \in Requests : call[r].pc = "done") =>
        /\ \E r \in Requests :
              /\ proposals[1].items = RaceOutcome(r).items
              /\ proposals[1].total_cents = RaceOutcome(r).total_cents
              /\ proposals[1].payment_stages = RaceOutcome(r).payment_stages
        /\ SumPercents(proposals[1].payment_stages) = 100

-----------------------------------------------------------------------------
(* Two accept_proposal requests on the same proposal, each in its own session:
   a request reads the row, then tests the copy it has read and commits *)

InitAccept ==
    /\ now = 0
    /\ user = [plan |-> "free", proposal_limit |-> 5, delete_credits |-> 1,
               paid_until |-> NoTime]
    /\ services = <<>>
    /\ cookies = [b \in Browsers |-> [id \in ProposalIds |-> NoTime]]
    /\ \E t \in {created_tables(<<>>, <<>>, <<>>, FormItems)} :
          /\ proposals = t.proposals
          /\ clients = t.clients
    /\ call = [r \in Requests |-> Idle]

\* line 1338: the row is loaded into the session of the request
AcceptRead(r, name, email) ==
    /\ call[r].pc = "idle"
    /\ call' = [call EXCEPT ![r] = [pc |-> "read", name |-> name, email |-> email,
                                     p |-> proposals[1], commit_no |-> 0,
                                     commit_at |-> NoTime]]
    /\ UNCHANGED <<now, user, services, clients, proposals, cookies>>

\* the requests that have ended
Ended == {q \in Requests : call[q].pc = "done"}

\* the row after the flush of a session that loaded it as loaded and changed
\* its copy to new: the UPDATE sets the columns whose value the session changed
flushed(row, loaded, new) ==
    [row EXCEPT
        !.accepted_at = IF new.accepted_at # loaded.accepted_at THEN new.accepted_at ELSE @,
        !.accepted_name = IF new.accepted_name # loaded.accepted_name
                          THEN new.accepted_name ELSE @,
        !.accepted_email = IF new.accepted_email # loaded.accepted_email
                           THEN new.accepted_email ELSE @,
        !.status = IF new.status # loaded.status THEN new.status ELSE @,
        !.last_activity_at = IF new.last_activity_at # loaded.last_activity_at
                             THEN new.last_activity_at ELSE @]

\* lines 1345-1352: the test and the assignments are on the row as loaded
AcceptCommit(r) ==
    /\ call[r].pc = "read"
    /\ proposals' = [proposals EXCEPT
          ![1] = flushed(@, call[r].p, accepted_proposal(call[r].p, call[r].name, call[r].email))]
    /\ call' = [call EXCEPT ![r].pc = "done",
                            ![r].commit_no = Cardinality(Ended) + 1,
                            ![r].commit_at = now]
    /\ UNCHANGED <<now, user, services, clients, cookies>>

NextAccept ==
    \/ Tick
    \/ \E r \in Requests, a \in AcceptForms : AcceptRead(r, a.name, a.email)
    \/ \E r \in Requests : AcceptCommit(r)

SpecAccept == InitAccept /\ [][NextAccept]_vars

\* C23: once two accept requests with different names for a proposal not yet
\* accepted have both ended, accepted_name, accepted_email and accepted_at are
\* those of the request that committed first.
C23_FirstWriterWins ==
    ((\A r \in Requests : call[r].pc = "done") /\ call[1].name # call[2].name) =>
        \E r \in Requests :
            /\ call[r].commit_no = 1
            /\ proposals[1].accepted_name = Strip(call[r].name)
            /\ proposals[1].accepted_email = StripOrNone(call[r].email)
            /\ proposals[1].accepted_at = call[r].commit_at

-----------------------------------------------------------------------------
(* More properties of the owner's proposals, checked under SpecOwner *)

\* C24: a proposal has status accepted exactly when its accepted_at is set, and
\* then its accepted_name is set too, whatever creations, copies, sends, views,
\* acceptances and edits came before.
C24_AcceptedIffAcceptedAt ==
    \A id \in DOMAIN proposals :
        /\ proposals[id].status = "accepted" <=> proposals[id].accepted_at # NoTime
        /\ proposals[id].accepted_at # NoTime => proposals[id].accepted_name # None

\* an accepted proposal, edited and viewed, next to a later copy not accepted
C24_Witness ==
    \E id, copy \in DOMAIN proposals :
        /\ id < copy
        /\ proposals[id].status = "accepted"
        /\ proposals[id].accepted_at # NoTime
        /\ proposals[id].revision > 1
        /\ proposals[id].view_count > 0
        /\ proposals[copy].items = proposals[id].items
        /\ proposals[copy].status = "created"
        /\ proposals[copy].accepted_at = NoTime

-----------------------------------------------------------------------------
(* The percent of a stored stage, checked under SpecStages *)

\* C25: every stage stored by upsert_payment_stages, for any plan, has a percent
\* from 1 to 100; none has percent 0, the adjusted last stage included.
C25_StoredPercentAtLeastOne ==
    call.done =>
        \A i \in 1..Len(StoredStages) :
            /\ StoredStages[i].percent >= 1
            /\ StoredStages[i].percent <= 100

-----------------------------------------------------------------------------
(* The stages against the total, checked under SpecOwner *)

\* C26: after any creations, edits and copies, every stored stage of every
\* proposal holds the amount of its percent of the proposal's present
\* total_cents, to the nearest cent.
C26_StagesFollowTotal ==
    \A id \in DOMAIN proposals :
        /\ proposals[id].payment_stages # <<>>
        /\ \A i \in 1..Len(proposals[id].payment_stages) :
              /\ 100 * proposals[id].payment_stages[i].amount_cents
                    - proposals[id].total_cents * proposals[id].payment_stages[i].percent <= 50
              /\ proposals[id].total_cents * proposals[id].payment_stages[i].percent
                    - 100 * proposals[id].payment_stages[i].amount_cents <= 50

\* a proposal created at R$ 100,00, edited to R$ 1.500,00 in three stages, and a
\* copy made of it after the edit
C26_Witness ==
    \E id, copy \in DOMAIN proposals :
        /\ id < copy
        /\ proposals[id].revision = 2
        /\ Len(proposals[id].versions) = 1
        /\ proposals[id].versions[1].snapshot.total_cents = 10000
        /\ proposals[id].total_cents = 150000
        /\ Len(proposals[id].payment_stages) = 3
        /\ proposals[id].payment_stages[2].amount_cents = 60000
        /\ proposals[copy].revision = 1
        /\ proposals[copy].total_cents = 150000
        /\ proposals[copy].payment_stages[2].amount_cents = 60000

-----------------------------------------------------------------------------
(* The account: the proposal limit and the delete credits of the free plan.
   Every request records its response in call. *)

MaxOwned == 6           \* proposal ids the account uses

ProLimit == 999999
ProCredits == 999999
ProMonthMinutes == 46080

OwnedIds == 1..MaxOwned

\* line 444: the user as signup creates it
signup_user == [plan |-> "free", proposal_limit |-> ProposalLimitDefault,
                delete_credits |-> 1, paid_until |-> NoTime]

InitAccount ==
    /\ now = 0
    /\ user = signup_user
    /\ services = <<>>
    /\ clients = <<>>
    /\ proposals = <<>>
    /\ cookies = [b \in Browsers |-> [id \in ProposalIds |-> NoTime]]
    /\ call = [response |-> "/"]

\* lines 120-131 as the payment webhook calls it, lines 1846-1848
SetUserProMonth ==
    /\ user' = [plan |-> "pro", proposal_limit |-> ProLimit,
                delete_credits |-> ProCredits, paid_until |-> now + ProMonthMinutes]
    /\ call' = [response |-> "ok"]
    /\ UNCHANGED <<now, services, clients, proposals, cookies>>

AccountCreateProposal(form) ==
    /\ NewId(proposals) \in OwnedIds
    /\ IF over_limit(user, proposals)
       THEN /\ UNCHANGED <<proposals, clients>>
            /\ call' = [response |-> "/pricing"]
       ELSE /\ \E t \in {created_tables(proposals, clients, services, form)} :
                  /\ proposals' = t.proposals
                  /\ clients' = t.clients
            /\ call' = [response |-> "/created"]
    /\ UNCHANGED <<now, user, services, cookies>>

AccountDuplicateProposal(id) ==
    /\ id \in DOMAIN proposals
    /\ NewId(proposals) \in OwnedIds
    /\ IF over_limit(user, proposals)
       THEN /\ UNCHANGED proposals
            /\ call' = [response |-> "/pricing"]
       ELSE /\ proposals' = proposals @@ (NewId(proposals) :> duplicated_proposal(proposals[id]))
            /\ call' = [response |-> "/dashboard"]
    /\ UNCHANGED <<now, user, services, clients, cookies>>

AccountProposalAgain(id) ==
    /\ id \in DOMAIN proposals
    /\ NewId(proposals) \in OwnedIds
    /\ IF over_limit(user, proposals)
       THEN /\ UNCHANGED proposals
            /\ call' = [response |-> "/pricing"]
       ELSE /\ proposals' = proposals @@ (NewId(proposals) :> again_proposal(proposals[id]))
            /\ call' = [response |-> "/created"]
    /\ UNCHANGED <<now, user, services, clients, cookies>>

AccountDeleteProposal(id) ==
    /\ id \in DOMAIN proposals
    /\ IF delete_refused(user)
       THEN /\ UNCHANGED <<user, proposals>>
            /\ call' = [response |-> "dashboard.html"]
       ELSE /\ user' = user_after_delete(user)
            /\ proposals' = without_proposal(proposals, id)
            /\ call' = [response |-> "/dashboard"]
    /\ UNCHANGED <<now, services, clients, cookies>>

NextAccount ==
    \/ SetUserProMonth
    \/ AccountCreateProposal(FormItems)
    \/ \E id \in OwnedIds : AccountDuplicateProposal(id)
    \/ \E id \in OwnedIds : AccountProposalAgain(id)
    \/ \E id \in OwnedIds : AccountDeleteProposal(id)

SpecAccount == InitAccount /\ [][NextAccount]_vars

-----------------------------------------------------------------------------
(* Properties of the account, checked under SpecAccount *)

Owned == Cardinality(DOMAIN proposals)

\* C27: while the user is not pro-active and owns proposal_limit proposals or
\* more, no request adds a proposal or changes another row; a user who has
\* never been pro never owns more than proposal_limit proposals.
C27_FreeLimitHolds ==
    /\ [](user.plan = "free" => Owned <= user.proposal_limit)
    /\ [][(~is_pro_active(user) /\ Owned >= user.proposal_limit) =>
             /\ DOMAIN proposals' \subseteq DOMAIN proposals
             /\ clients' = clients
             /\ \A id \in DOMAIN proposals' : proposals'[id] = proposals[id]]_vars

\* a free user at the limit whose last request for a new proposal was refused
C27_Witness ==
    /\ user.plan = "free"
    /\ Owned = user.proposal_limit
    /\ call.response = "/pricing"

\* C28: a free user who is not pro-active loses a proposal only with a delete
\* credit left, and the deletion costs exactly one credit; without credit every
\* proposal stays as it is, items, stages and versions included, and the
\* credits stay; delete_credits is never negative.
C28_DeleteCostsOneCredit ==
    /\ [](user.delete_credits >= 0)
    /\ [][(user.plan = "free" /\ ~is_pro_active(user) /\ user'.plan = "free") =>
             IF DOMAIN proposals \subseteq DOMAIN proposals'
             THEN /\ user'.delete_credits = user.delete_credits
                  /\ \A id \in DOMAIN proposals : proposals'[id] = proposals[id]
             ELSE /\ user.delete_credits > 0
                  /\ user'.delete_credits = user.delete_credits - 1
                  /\ Cardinality(DOMAIN proposals \ DOMAIN proposals') = 1
                  /\ DOMAIN proposals' \subseteq DOMAIN proposals
                  /\ \A id \in DOMAIN proposals' : proposals'[id] = proposals[id]]_vars
    /\ [][(user.plan = "free" /\ user.delete_credits = 0 /\ user'.plan = "free") =>
             /\ user' = user
             /\ DOMAIN proposals \subseteq DOMAIN proposals']_vars

\* a free user who has spent the one credit, owns proposals and was refused a
\* second deletion
C28_Witness ==
    /\ user.plan = "free"
    /\ user.delete_credits = 0
    /\ Owned >= 2
    /\ 1 \notin DOMAIN proposals
    /\ call.response = "dashboard.html"

-----------------------------------------------------------------------------
(* The copies, checked under SpecOwner *)

\* row copy is a fresh copy of row original
FreshCopy(copy, original) ==
    /\ copy.status = "created"
    /\ copy.revision = 1
    /\ copy.accepted_at = NoTime
    /\ copy.accepted_name = None
    /\ copy.accepted_email = None
    /\ copy.versions = <<>>
    /\ copy.items = original.items
    /\ copy.total_cents = original.total_cents
    /\ Len(copy.payment_stages) = Len(original.payment_stages)
    /\ \A i \in 1..Len(copy.payment_stages) :
          /\ copy.payment_stages[i].percent = original.payment_stages[i].percent
          /\ copy.payment_stages[i].status = "pending"

-----------------------------------------------------------------------------
(* The view counter, checked under Spec *)

\* C30: a load of the public link is counted exactly when the browser has no
\* cookie for the proposal or its most recent load, counted or not, was 10
\* minutes ago or more; a counted load adds 1 to view_count, sets
\* first_viewed_at if it was unset, sets last_viewed_at and moves status to
\* viewed from created or sent only; every load refreshes the cookie;
\* view_count never decreases and first_viewed_at never changes once set.
C30_ViewsCountedOncePerWindow ==
    /\ [][\A id \in DOMAIN proposals, b \in Browsers :
            PublicProposal(id, b) =>
                /\ cookies'[b][id] = now
                /\ IF cookies[b][id] = NoTime \/ now - cookies[b][id] >= 10
                   THEN /\ proposals'[id].view_count = proposals[id].view_count + 1
                        /\ proposals'[id].first_viewed_at =
                              IF proposals[id].first_viewed_at = NoTime THEN now
                              ELSE proposals[id].first_viewed_at
                        /\ proposals'[id].last_viewed_at = now
                        /\ proposals'[id].status =
                              IF proposals[id].status \in {"created", "sent"} THEN "viewed"
                              ELSE proposals[id].status
                   ELSE /\ proposals'[id].view_count = proposals[id].view_count
                        /\ proposals'[id].first_viewed_at = proposals[id].first_viewed_at
                        /\ proposals'[id].last_viewed_at = proposals[id].last_viewed_at
                        /\ proposals'[id].status = proposals[id].status]_vars
    /\ [][\A id \in DOMAIN proposals \cap DOMAIN proposals' :
            /\ proposals'[id].view_count >= proposals[id].view_count
            /\ proposals[id].first_viewed_at # NoTime =>
                  proposals'[id].first_viewed_at = proposals[id].first_viewed_at]_vars

\* a proposal loaded by the same browser at minute 0 and at minute 10, both
\* loads counted
C30_Witness ==
    \E id \in DOMAIN proposals, b \in Browsers :
        /\ proposals[id].view_count = 2
        /\ proposals[id].first_viewed_at = 0
        /\ proposals[id].last_viewed_at = 10
        /\ cookies[b][id] = 10

====
